---- MODULE Spec2Model ----
(***************************************************************************)
(* Cross-agent convergence detection and proof publication                 *)
(* (shared/convergence.py, agents/*/services/blockchain.py).               *)
(*                                                                         *)
(* Conventions of the model                                                *)
(*  - A Python value that may be None is a sequence of length 0 (None) or  *)
(*    1 (the value).                                                       *)
(*  - Fractions are held as integers: confidence and sentiment_score in    *)
(*    hundredths (0.7 is 70, -0.2 is -20), multipliers in tenths (1.5 is   *)
(*    15), avg_score in sixths and convergence_score in sixtieths, so that *)
(*    sum/len and avg*multiplier are exact for 1, 2 or 3 scores.           *)
(*  - An exception that escapes a function is the result field             *)
(*    raised = TRUE.                                                       *)
(***************************************************************************)
EXTENDS Integers, Sequences, FiniteSets, TLC

VARIABLES
    tipster_signals,        \* table tipster_signals (rows the scanner reads)
    whale_transactions,     \* whale_transactions LEFT JOIN whale_analyses
    narrative_sentiments,   \* table narrative_sentiments
    fed,                    \* collector rows written so far
    convergence_signals,    \* committed rows of convergence_signals, by id
    whale_reports,          \* committed rows of whale_reports, by id
    ledger,                 \* submissions accepted by AgentProofOracle
    now,                    \* the clock (datetime.now), in window ticks
    tick,                   \* per process: the running detect_convergence
    started,                \* detect_convergence calls started so far
    errors,                 \* exceptions logged by the job wrappers
    lookup,                 \* the get_convergence_boost call of the last step
    pub,                    \* per caller: the running submit_daily_proof
    calls,                  \* submit_daily_proof calls started so far
    returns,                \* the finished submit_daily_proof calls, in order
    CONVERGENCE_ERC8004_ID, \* settings.CONVERGENCE_ERC8004_ID
    convergence_boosts,     \* committed rows of convergence_boosts
    liquidation_reports,    \* committed rows of liquidation_reports, by id
    liq,                    \* the running submit_daily_proof of liquidation
    arg, ret                \* argument and result of a direct function call

vars == <<tipster_signals, whale_transactions, narrative_sentiments, fed,
          convergence_signals, whale_reports, ledger, now, tick, started,
          errors, lookup, pub, calls, returns, CONVERGENCE_ERC8004_ID,
          convergence_boosts, liquidation_reports, liq, arg, ret>>

signalVars == <<tipster_signals, whale_transactions, narrative_sentiments, fed>>
tickVars == <<tick, started, errors>>
pubVars == <<pub, calls, returns>>
callVars == <<arg, ret>>
liquidationVars == <<liquidation_reports, liq>>

\* bounds of the model
MaxTime == 2
WindowTicks == 1
MaxTicks == 3
MaxCalls == 2
MaxAgentCount == 4
MaxLines == 3

Agents == {"tipster", "whale", "narrative"}
Tokens == {"AVAX", "JOE"}
Procs == {"service", "gateway"}
Callers == {"job", "retry"}

\* str.upper / SQL UPPER on the token spellings that occur
Upper(s) == IF s = "avax" THEN "AVAX" ELSE IF s = "joe" THEN "JOE" ELSE s

None == << >>
Some(x) == <<x>>
IsNone(o) == o = << >>

Abs(x) == IF x < 0 THEN -x ELSE x

RECURSIVE SumSeq(_)
SumSeq(s) == IF s = << >> THEN 0 ELSE Head(s) + SumSeq(Tail(s))

\* MULTIPLIERS = {1: 1.0, 2: 1.5, 3: 2.0}, in tenths, and its .get default
MULTIPLIERS == (1 :> 10) @@ (2 :> 15) @@ (3 :> 20)
MultiplierDefault == 10
DIRECTION_BONUS == 2

\* WHALE_SIGNIFICANCE_SCORES and the default of its .get
WHALE_SIGNIFICANCE_SCORES ==
    ("low" :> 25) @@ ("medium" :> 50) @@ ("high" :> 75) @@ ("critical" :> 100)
SignificanceDefault == 50

\* the per-agent votes appended to `directions`, in the order of the code
TipsterVote(t) ==
    IF IsNone(t) \/ t = Some("") THEN << >>
    ELSE IF t[1] \in {"BUY", "HOLD"} THEN <<"bullish">>
    ELSE IF t[1] \in {"SELL", "AVOID"} THEN <<"bearish">>
    ELSE << >>

WhaleVote(w) ==
    IF IsNone(w) \/ w = Some("") THEN << >>
    ELSE IF w[1] \in {"swap", "stake", "lp_add"} THEN <<"bullish">>
    ELSE IF w[1] \in {"transfer", "unstake", "lp_remove"} THEN <<"bearish">>
    ELSE << >>

NarrativeVote(n) ==
    IF IsNone(n) THEN << >>
    ELSE IF n[1] > 20 THEN <<"bullish">>
    ELSE IF n[1] < -20 THEN <<"bearish">>
    ELSE << >>

\* _determine_direction without the test len(directions) >= 2
DirectionOfAnyVote(t, w, n) ==
    LET directions == TipsterVote(t) \o WhaleVote(w) \o NarrativeVote(n)
        unique == {directions[i] : i \in DOMAIN directions}
    IN  IF directions = << >> THEN <<"neutral", FALSE>>
        ELSE IF Cardinality(unique) = 1 THEN <<directions[1], TRUE>>
        ELSE <<"mixed", FALSE>>

\* _determine_direction(tipster_signal_type, whale_tx_type, narrative_sentiment)
\* returns <<direction, agreement>>
_determine_direction(t, w, n) ==
    LET directions == TipsterVote(t) \o WhaleVote(w) \o NarrativeVote(n)
        unique == {directions[i] : i \in DOMAIN directions}
    IN  IF directions = << >> THEN <<"neutral", FALSE>>
        ELSE IF Cardinality(unique) = 1 /\ Len(directions) >= 2
             THEN <<directions[1], TRUE>>
        ELSE IF "bullish" \in unique /\ "bearish" \in unique
             THEN <<"mixed", FALSE>>
        ELSE <<directions[1], FALSE>>

\* an agents list that names every agent whatever the lookups hold
EveryAgent(t, w, n) == <<"tipster", "whale", "narrative">>

\* the agents list and the overlap dict built for one token from the three
\* per-agent lookups (tipster_data.get(token), ...); None below two agents
OverlapAgents(t, w, n) ==
    (IF IsNone(t) THEN << >> ELSE <<"tipster">>)
    \o (IF IsNone(w) THEN << >> ELSE <<"whale">>)
    \o (IF IsNone(n) THEN << >> ELSE <<"narrative">>)

\* an overlap dict whose agent_count is one less than the agents listed
MakeOverlapMiscounted(token, t, w, n) ==
    LET agents == OverlapAgents(t, w, n)
    IN  IF Len(agents) >= 2
        THEN Some([token_symbol |-> token, agent_count |-> Len(agents) - 1,
                   agents |-> agents, tipster |-> t, whale |-> w,
                   narrative |-> n])
        ELSE None

MakeOverlap(token, t, w, n) ==
    LET agents == OverlapAgents(t, w, n)
    IN  IF Len(agents) >= 2
        THEN Some([token_symbol |-> token, agent_count |-> Len(agents),
                   agents |-> agents, tipster |-> t, whale |-> w,
                   narrative |-> n])
        ELSE None

\* sum(scores) / len(scores) if scores else 0, in sixths
AvgScore(scores) ==
    IF scores = << >> THEN 0 ELSE (SumSeq(scores) * 6) \div Len(scores)

\* MULTIPLIERS.get(agent_count, 1.0), plus the bonus, in tenths
Multiplier(agent_count, agreement) ==
    LET base == IF agent_count \in DOMAIN MULTIPLIERS
                THEN MULTIPLIERS[agent_count] ELSE MultiplierDefault
    IN  IF agreement /\ agent_count >= 2 THEN base + DIRECTION_BONUS ELSE base

\* _build_convergence(overlap, window_start, window_end); detected_at is the
\* clock read at line 220.  overlap.get("tipster", {}) is None, not {}, for an
\* agent the scanner stored as None, and None.get raises AttributeError.
_build_convergence(overlap, window_start, window_end, detected_at) ==
    LET t == overlap.tipster
        w == overlap.whale
        n == overlap.narrative
        tipster_score == IF IsNone(t) THEN None ELSE Some(t[1].confidence)
        whale_score ==
            IF IsNone(w) THEN None
            ELSE Some(IF w[1].significance \in DOMAIN WHALE_SIGNIFICANCE_SCORES
                      THEN WHALE_SIGNIFICANCE_SCORES[w[1].significance]
                      ELSE SignificanceDefault)
        narrative_score ==
            IF IsNone(n) THEN None
            ELSE Some(Abs(IF IsNone(n[1].sentiment_score) THEN 0
                          ELSE n[1].sentiment_score[1]))
        scores == tipster_score \o whale_score \o narrative_score
        avg_score == AvgScore(scores)
        raises == IsNone(t) \/ IsNone(w) \/ IsNone(n)
        da == _determine_direction(Some(t[1].signal_type), Some(w[1].tx_type),
                                   n[1].sentiment_score)
        multiplier == Multiplier(overlap.agent_count, da[2])
    IN  IF raises THEN [raised |-> TRUE, row |-> None]
        ELSE [raised |-> FALSE, row |-> Some(
            [token_symbol |-> overlap.token_symbol,
             window_start |-> window_start,
             window_end |-> window_end,
             tipster_signal_id |-> Some(t[1].signal_id),
             whale_tx_id |-> Some(w[1].tx_id),
             narrative_sentiment_id |-> Some(n[1].sentiment_id),
             agent_count |-> overlap.agent_count,
             agents_involved |-> overlap.agents,
             tipster_raw_score |-> tipster_score,
             whale_raw_score |-> whale_score,
             narrative_raw_score |-> narrative_score,
             convergence_multiplier |-> multiplier,
             convergence_score |-> avg_score * multiplier,
             signal_direction |-> da[1],
             direction_agreement |-> da[2],
             proof_hash |-> None,
             proof_tx_hash |-> None,
             detected_at |-> detected_at,
             id |-> None])]

\* a synthesis whose score decays with the time of detection
SynthesizeDecaying(token, t, w, n, cutoff, at) ==
    LET o == MakeOverlap(token, t, w, n)
        built == _build_convergence(o[1], cutoff, at, at)
    IN  IF IsNone(o) THEN [raised |-> FALSE, row |-> None]
        ELSE IF o[1].agent_count < 2 THEN [raised |-> FALSE, row |-> None]
        ELSE IF built.raised THEN built
        ELSE [built EXCEPT !.row[1].convergence_score = @ - at]

\* the loop body of detect_convergence without the store, for a tick at time
\* at: an overlap below two agents is skipped, any other is built
SynthesizeAt(token, t, w, n, cutoff, at) ==
    LET o == MakeOverlap(token, t, w, n)
    IN  IF IsNone(o) THEN [raised |-> FALSE, row |-> None]
        ELSE IF o[1].agent_count < 2 THEN [raised |-> FALSE, row |-> None]
        ELSE _build_convergence(o[1], cutoff, at, at)

Synthesize(token, t, w, n) == SynthesizeAt(token, t, w, n, 0, 0)

(***************************************************************************)
(* The collectors (external): the rows they write, in the order written.   *)
(***************************************************************************)
TipsterFeed ==
    <<[id |-> 1, token_symbol |-> "AVAX", confidence |-> 70,
       signal_type |-> "BUY", is_valid |-> TRUE],
      [id |-> 2, token_symbol |-> "JOE", confidence |-> 50,
       signal_type |-> "SELL", is_valid |-> TRUE],
      [id |-> 3, token_symbol |-> "JOE", confidence |-> 90,
       signal_type |-> "BUY", is_valid |-> FALSE]>>

WhaleFeed ==
    <<[id |-> 1, token_symbol |-> "avax", significance |-> Some("medium"),
       tx_type |-> "swap", amount_usd |-> Some(9)],
      [id |-> 2, token_symbol |-> "JOE", significance |-> None,
       tx_type |-> "transfer", amount_usd |-> None]>>

NarrativeFeed ==
    <<[id |-> 1, tokens_mentioned |-> <<"AVAX">>,
       sentiment_score |-> Some(50), overall_sentiment |-> "bullish"],
      [id |-> 2, tokens_mentioned |-> <<"avax", "JOE">>,
       sentiment_score |-> Some(-50), overall_sentiment |-> "bearish"]>>

Feed == <<<<"narrative", 2>>, <<"tipster", 2>>>>

\* a row with the timestamp column the scanner filters on
Stamp(row, at) == [r |-> row, at |-> at]

(***************************************************************************)
(* _find_token_overlaps                                                    *)
(***************************************************************************)
\* tipster_data[token]: the first row of the token in ORDER BY confidence DESC
TipsterFirsts(cutoff, token) ==
    LET rows == {x \in tipster_signals :
                    /\ x.at >= cutoff
                    /\ x.r.is_valid
                    /\ Upper(x.r.token_symbol) = token}
        first == {x \in rows : \A y \in rows : y.r.confidence <= x.r.confidence}
    IN  IF rows = {} THEN {None}
        ELSE {Some([signal_id |-> x.r.id, confidence |-> x.r.confidence,
                    signal_type |-> x.r.signal_type]) : x \in first}

\* ORDER BY amount_usd DESC NULLS LAST
AmountKey(a) == IF IsNone(a) THEN -1 ELSE a[1]

\* whale_data[token]; row[2] or "medium", float(row[4] or 0)
WhaleFirsts(cutoff, token) ==
    LET rows == {x \in whale_transactions :
                    /\ x.at >= cutoff
                    /\ Upper(x.r.token_symbol) = token}
        first == {x \in rows : \A y \in rows :
                    AmountKey(y.r.amount_usd) <= AmountKey(x.r.amount_usd)}
    IN  IF rows = {} THEN {None}
        ELSE {Some([tx_id |-> x.r.id,
                    significance |-> IF x.r.significance \in {None, Some("")}
                                     THEN "medium" ELSE x.r.significance[1],
                    tx_type |-> x.r.tx_type,
                    amount_usd |-> IF IsNone(x.r.amount_usd) THEN 0
                                   ELSE x.r.amount_usd[1]]) : x \in first}

\* narrative_data[token]; the query has no ORDER BY: any row may come first
NarrativeFirsts(cutoff, token) ==
    LET rows == {x \in narrative_sentiments :
                    /\ x.at >= cutoff
                    /\ \E k \in DOMAIN x.r.tokens_mentioned :
                          Upper(x.r.tokens_mentioned[k]) = token}
    IN  IF rows = {} THEN {None}
        ELSE {Some([sentiment_id |-> x.r.id,
                    sentiment_score |-> x.r.sentiment_score,
                    overall_sentiment |-> x.r.overall_sentiment]) : x \in rows}

\* the overlap dicts the scan can produce for one token (None: fewer than two)
TokenOverlaps(cutoff, token) ==
    {MakeOverlap(token, t, w, n) :
        t \in TipsterFirsts(cutoff, token),
        w \in WhaleFirsts(cutoff, token),
        n \in NarrativeFirsts(cutoff, token)}

\* overlaps.sort(key=agent_count, reverse=True)
SortedByAgentCount(s) ==
    \A i \in DOMAIN s : \A j \in DOMAIN s :
        i < j => s[i].agent_count >= s[j].agent_count

\* the lists _find_token_overlaps can return: one overlap per token that has
\* one, in any order the set iteration and the stable sort allow
_find_token_overlaps(cutoff) ==
    LET pick == {f \in [Tokens -> UNION {TokenOverlaps(cutoff, k) : k \in Tokens}] :
                    \A k \in Tokens : f[k] \in TokenOverlaps(cutoff, k)}
        Found(f) == {f[k][1] : k \in {x \in Tokens : ~IsNone(f[x])}}
        Lists(O) == IF O = {} THEN {<< >>} ELSE
                    {s \in [1..Cardinality(O) -> O] :
                        /\ \A i \in DOMAIN s : \A j \in DOMAIN s :
                              i # j => s[i] # s[j]
                        /\ SortedByAgentCount(s)}
    IN  UNION {Lists(Found(f)) : f \in pick}

(***************************************************************************)
(* detect_convergence, one action per database or ledger operation         *)
(***************************************************************************)
\* a process that is not inside detect_convergence
IdleTick ==
    [pc |-> "idle", cutoff |-> 0, now |-> 0, overlaps |-> << >>, i |-> 0,
     new_convergences |-> << >>]

\* no get_convergence_boost call was made in the last step
NoLookup ==
    [agent_name |-> "", token_symbol |-> None, raised |-> FALSE, value |-> 0]

\* sha256 of the serialized payload, kept as the payload itself
Sha256(payload) == <<"sha256", payload>>
Digest(h) == <<"bytes", h>>
HexDigest(h) == <<"hex", h>>

\* bytes.fromhex(text[2:]) of a stored "0x..." text, kept as <<"0x", hex>>
FromHex(text) == <<"bytes", Tail(text)[1][2]>>

\* int(conv.convergence_score * 100), the score being held in sixtieths
ScoreHundredths(score) == (score * 100) \div 60

\* a deduplication query that finds nothing
NoExistingRows(token, cutoff) == {}

\* the rows the deduplication query of lines 53-58 returns
ExistingRows(token, cutoff) ==
    {k \in DOMAIN convergence_signals :
        /\ convergence_signals[k].token_symbol = token
        /\ convergence_signals[k].detected_at >= cutoff}

\* index of the first 3-agent convergence after position i, 0 if none
NextThreeAgent(convs, i) ==
    LET later == {k \in DOMAIN convs : k > i /\ convs[k].agent_count = 3}
    IN  IF later = {} THEN 0
        ELSE CHOOSE k \in later : \A m \in later : k <= m

\* lines 40-45: the clock is read and the three tables are queried
Scan(p) ==
    /\ tick[p].pc = "idle"
    /\ started < MaxTicks
    /\ started' = started + 1
    /\ \E overlaps \in _find_token_overlaps(now - WindowTicks) :
          tick' = [tick EXCEPT ![p] =
                    IF overlaps = << >> THEN IdleTick
                    ELSE [pc |-> "loop", cutoff |-> now - WindowTicks,
                          now |-> now, overlaps |-> overlaps, i |-> 1,
                          new_convergences |-> << >>]]
    /\ lookup' = NoLookup
    /\ UNCHANGED <<signalVars, convergence_signals, whale_reports, ledger,
                   now, errors, pubVars, CONVERGENCE_ERC8004_ID, convergence_boosts,
                   liquidationVars, callVars>>

\* one of the three queries raises: nothing catches it inside
\* detect_convergence, the session is closed and the call raises
ScanFails(p, agent) ==
    /\ tick[p].pc = "idle"
    /\ agent \in Agents
    /\ started < MaxTicks
    /\ started' = started + 1
    /\ errors' = errors \cup {"query"}
    /\ lookup' = NoLookup
    /\ UNCHANGED <<signalVars, convergence_signals, whale_reports, ledger,
                   now, tick, pubVars, CONVERGENCE_ERC8004_ID, convergence_boosts,
                   liquidationVars, callVars>>

\* lines 48-64 for overlap i: the existence query, then build and db.add.
\* scalar_one_or_none raises on two or more rows; a raise of
\* _build_convergence escapes too, and the pending rows are rolled back.
\* After the last overlap the loop ends: with nothing new the call returns,
\* otherwise the commit is next.
CheckExisting(p) ==
    LET t == tick[p]
        o == t.overlaps[t.i]
        existing == ExistingRows(o.token_symbol, t.cutoff)
        built == _build_convergence(o, t.cutoff, t.now, now)
        skip == o.agent_count < 2 \/ Cardinality(existing) = 1
        multiple == o.agent_count >= 2 /\ Cardinality(existing) >= 2
        raises == ~skip /\ (multiple \/ built.raised)
        new == IF skip THEN t.new_convergences
               ELSE Append(t.new_convergences, built.row[1])
    IN  /\ t.pc = "loop"
        /\ errors' = IF ~raises THEN errors
                     ELSE IF multiple THEN errors \cup {"MultipleResultsFound"}
                     ELSE errors \cup {"AttributeError"}
        /\ tick' = [tick EXCEPT ![p] =
                IF raises THEN IdleTick
                ELSE IF t.i < Len(t.overlaps)
                     THEN [t EXCEPT !.i = t.i + 1, !.new_convergences = new]
                ELSE IF new = << >> THEN IdleTick
                ELSE [t EXCEPT !.pc = "commit", !.i = 0,
                               !.new_convergences = new]]
        /\ lookup' = NoLookup
        /\ UNCHANGED <<signalVars, convergence_signals, whale_reports, ledger,
                       now, started, pubVars, CONVERGENCE_ERC8004_ID, convergence_boosts,
                       liquidationVars, callVars>>

\* a commit after which the submissions start whether or not a ledger
\* identity is configured
CommitUnconfigured(p) ==
    LET t == tick[p]
        base == Len(convergence_signals)
        saved == [k \in DOMAIN t.new_convergences |->
                    [t.new_convergences[k] EXCEPT !.id = Some(base + k)]]
        first == NextThreeAgent(saved, 0)
    IN  /\ t.pc = "commit"
        /\ convergence_signals' = convergence_signals \o saved
        /\ tick' = [tick EXCEPT ![p] =
                IF first = 0
                THEN IdleTick
                ELSE [t EXCEPT !.pc = "submit", !.i = first,
                               !.new_convergences = saved]]
        /\ lookup' = NoLookup
        /\ UNCHANGED <<signalVars, whale_reports, ledger, now, started, errors,
                       pubVars, CONVERGENCE_ERC8004_ID, convergence_boosts,
                       liquidationVars, callVars>>

\* the submissions start with the batch still pending, the commit left for
\* later
CommitDeferred(p) ==
    LET t == tick[p]
        base == Len(convergence_signals)
        saved == [k \in DOMAIN t.new_convergences |->
                    [t.new_convergences[k] EXCEPT !.id = Some(base + k)]]
        first == NextThreeAgent(saved, 0)
    IN  /\ t.pc = "commit"
        /\ tick' = [tick EXCEPT ![p] =
                IF CONVERGENCE_ERC8004_ID = 0 \/ first = 0
                THEN IdleTick
                ELSE [t EXCEPT !.pc = "submit", !.i = first,
                               !.new_convergences = saved]]
        /\ lookup' = NoLookup
        /\ UNCHANGED <<signalVars, convergence_signals, whale_reports, ledger,
                       now, started, errors, pubVars, CONVERGENCE_ERC8004_ID,
                       convergence_boosts, liquidationVars, callVars>>

\* line 67: the pending rows are inserted and committed; then lines 70-72
\* start, and _submit_meta_proof returns at once when no identity is set
Commit(p) ==
    LET t == tick[p]
        base == Len(convergence_signals)
        saved == [k \in DOMAIN t.new_convergences |->
                    [t.new_convergences[k] EXCEPT !.id = Some(base + k)]]
        first == NextThreeAgent(saved, 0)
    IN  /\ t.pc = "commit"
        /\ convergence_signals' = convergence_signals \o saved
        /\ tick' = [tick EXCEPT ![p] =
                IF CONVERGENCE_ERC8004_ID = 0 \/ first = 0
                THEN IdleTick
                ELSE [t EXCEPT !.pc = "submit", !.i = first,
                               !.new_convergences = saved]]
        /\ lookup' = NoLookup
        /\ UNCHANGED <<signalVars, whale_reports, ledger, now, started, errors,
                       pubVars, CONVERGENCE_ERC8004_ID, convergence_boosts,
                       liquidationVars, callVars>>

\* the payload of json.dumps at lines 272-278
ProofData(conv) ==
    [token |-> conv.token_symbol, agents |-> conv.agents_involved,
     score |-> conv.convergence_score, direction |-> conv.signal_direction,
     agreement |-> conv.direction_agreement]

\* a submission tagged with the tier below that of the result
LowerTierClaim(conv) ==
    [agent_id |-> CONVERGENCE_ERC8004_ID,
     score |-> ScoreHundredths(conv.convergence_score),
     score_decimals |-> 2,
     tag1 |-> "convergence",
     tag2 |-> <<conv.agent_count - 1, "-agent">>,
     proof_uri |-> <<"convergence://signal/", conv.id[1]>>,
     proof_hash |-> Digest(Sha256(ProofData(conv)))]

\* the arguments of proof_oracle.submit_proof at lines 282-290
MetaProofClaim(conv) ==
    [agent_id |-> CONVERGENCE_ERC8004_ID,
     score |-> ScoreHundredths(conv.convergence_score),
     score_decimals |-> 2,
     tag1 |-> "convergence",
     tag2 |-> <<conv.agent_count, "-agent">>,
     proof_uri |-> <<"convergence://signal/", conv.id[1]>>,
     proof_hash |-> Digest(Sha256(ProofData(conv)))]

\* what a submission can come to: the ledger accepts it and the store
\* records it; the ledger call raises and nothing is accepted; the ledger
\* accepts it but the caller gets an exception (the reply of
\* send_raw_transaction is lost, or the update or its commit fails)
LedgerOutcomes == {"recorded", "rejected", "unrecorded"}

\* the ledger after a submission with that outcome
LedgerAfter(claim, outcome) ==
    IF outcome = "rejected" THEN ledger ELSE Append(ledger, claim)

\* an update that stores the hash of a payload without the agreement key
HashOfOtherPayload(conv, outcome, tx_hash) ==
    IF outcome = "recorded"
    THEN [convergence_signals EXCEPT ![conv.id[1]] =
            [@ EXCEPT !.proof_hash =
                         Some(HexDigest(Sha256([token |-> conv.token_symbol,
                                                agents |-> conv.agents_involved,
                                                score |-> conv.convergence_score,
                                                direction |-> conv.signal_direction]))),
                      !.proof_tx_hash = Some(tx_hash)]]
    ELSE convergence_signals

\* an update that stores proof_hash before the ledger has answered
HashedBeforeSubmit(conv, outcome, tx_hash) ==
    [convergence_signals EXCEPT ![conv.id[1]] =
        [@ EXCEPT !.proof_hash = Some(HexDigest(Sha256(ProofData(conv)))),
                  !.proof_tx_hash =
                      IF outcome = "recorded" THEN Some(tx_hash) ELSE @]]

\* an update of the proof fields that also recomputes the score
RescoredAfterMetaProof(conv, outcome, tx_hash) ==
    IF outcome = "recorded"
    THEN [convergence_signals EXCEPT ![conv.id[1]] =
            [@ EXCEPT !.proof_hash = Some(HexDigest(Sha256(ProofData(conv)))),
                      !.proof_tx_hash = Some(tx_hash),
                      !.convergence_score = @ + 1]]
    ELSE convergence_signals

\* lines 292-294 and 302-303: convergence_signals after _submit_meta_proof
SignalsAfterMetaProof(conv, outcome, tx_hash) ==
    IF outcome = "recorded"
    THEN [convergence_signals EXCEPT ![conv.id[1]] =
            [@ EXCEPT !.proof_hash = Some(HexDigest(Sha256(ProofData(conv)))),
                      !.proof_tx_hash = Some(tx_hash)]]
    ELSE convergence_signals

\* a _submit_meta_proof whose exception is not caught: a ledger call that
\* fails ends the tick
SubmitMetaProofUncaught(p) ==
    LET t == tick[p]
        conv == t.new_convergences[t.i]
        tx_hash == Len(ledger) + 1
        next == NextThreeAgent(t.new_convergences, t.i)
    IN  /\ t.pc = "submit"
        /\ \E outcome \in LedgerOutcomes :
              /\ ledger' = LedgerAfter(MetaProofClaim(conv), outcome)
              /\ convergence_signals' =
                    SignalsAfterMetaProof(conv, outcome, tx_hash)
              /\ tick' = [tick EXCEPT ![p] =
                      IF next = 0 \/ outcome = "rejected" THEN IdleTick
                      ELSE [t EXCEPT !.i = next]]
        /\ lookup' = NoLookup
        /\ UNCHANGED <<signalVars, whale_reports, now, started, errors,
                       pubVars, CONVERGENCE_ERC8004_ID, convergence_boosts,
                       liquidationVars, callVars>>

\* _submit_meta_proof for new_convergences[i]: the ledger call, then the
\* update of proof_hash and proof_tx_hash and its commit; an exception is
\* logged and nothing is written
SubmitMetaProof(p) ==
    LET t == tick[p]
        conv == t.new_convergences[t.i]
        tx_hash == Len(ledger) + 1
        next == NextThreeAgent(t.new_convergences, t.i)
    IN  /\ t.pc = "submit"
        /\ \E outcome \in LedgerOutcomes :
              /\ ledger' = LedgerAfter(MetaProofClaim(conv), outcome)
              /\ convergence_signals' =
                    SignalsAfterMetaProof(conv, outcome, tx_hash)
        /\ tick' = [tick EXCEPT ![p] =
                IF next = 0 THEN IdleTick ELSE [t EXCEPT !.i = next]]
        /\ lookup' = NoLookup
        /\ UNCHANGED <<signalVars, whale_reports, now, started, errors,
                       pubVars, CONVERGENCE_ERC8004_ID, convergence_boosts,
                       liquidationVars, callVars>>

(***************************************************************************)
(* get_convergence_boost                                                   *)
(***************************************************************************)
\* the agent names and token arguments of the calls made on their own
BoostCallers == {"whale", "auditor"}
BoostTokens == {Some("avax")}

\* a query that also sees the rows a tick has added and not yet committed
BoostRowsDirty(token, cutoff) ==
    LET pending == UNION {{tick[p].new_convergences[k] :
                              k \in DOMAIN tick[p].new_convergences} :
                          p \in {x \in Procs : tick[x].pc \in {"loop", "commit"}}}
        rows == {r \in pending \cup {convergence_signals[k] :
                                        k \in DOMAIN convergence_signals} :
                    r.token_symbol = token /\ r.detected_at >= cutoff}
        top == {r \in rows : \A m \in rows :
                  m.convergence_score <= r.convergence_score}
    IN  IF rows = {} THEN {None} ELSE {Some(r) : r \in top}

\* the rows ORDER BY convergence_score DESC LIMIT 1 can return (None: no row)
BoostRows(token, cutoff) ==
    LET rows == ExistingRows(token, cutoff)
        top == {k \in rows : \A m \in rows :
                  convergence_signals[m].convergence_score
                    <= convergence_signals[k].convergence_score}
    IN  IF rows = {} THEN {None} ELSE {Some(convergence_signals[k]) : k \in top}

InList(x, seq) == \E k \in DOMAIN seq : seq[k] = x

\* lines 326-328; 1.0 is 10 tenths
BoostOf(agent_name, conv) ==
    IF ~IsNone(conv) /\ InList(agent_name, conv[1].agents_involved)
    THEN conv[1].convergence_multiplier
    ELSE 10

\* the outcomes get_convergence_boost(agent_name, token_symbol) can have
\* now; line 319: token_symbol.upper() raises AttributeError on None
get_convergence_boost(agent_name, token_symbol) ==
    IF IsNone(token_symbol) THEN {[raised |-> TRUE, value |-> 0]}
    ELSE {[raised |-> FALSE, value |-> BoostOf(agent_name, conv)] :
             conv \in BoostRows(Upper(token_symbol[1]), now - WindowTicks)}

\* a lookup that also stores a convergence_boosts row for what it returned
LookupRecording ==
    /\ \E a \in BoostCallers : \E k \in BoostTokens :
       \E r \in get_convergence_boost(a, k) :
          /\ lookup' = [agent_name |-> a, token_symbol |-> k,
                        raised |-> r.raised, value |-> r.value]
          /\ convergence_boosts' =
                IF Len(convergence_boosts) < 1
                THEN Append(convergence_boosts,
                            [agent_name |-> a, multiplier |-> r.value])
                ELSE convergence_boosts
    /\ UNCHANGED <<signalVars, convergence_signals, whale_reports, ledger,
                   now, tickVars, pubVars, CONVERGENCE_ERC8004_ID,
                   liquidationVars, callVars>>

\* a call of get_convergence_boost on its own; lookup holds it for one step
Lookup ==
    /\ \E a \in BoostCallers : \E k \in BoostTokens :
       \E r \in get_convergence_boost(a, k) :
          lookup' = [agent_name |-> a, token_symbol |-> k,
                     raised |-> r.raised, value |-> r.value]
    /\ UNCHANGED <<signalVars, convergence_signals, whale_reports, ledger,
                   now, tickVars, pubVars, CONVERGENCE_ERC8004_ID, convergence_boosts,
                   liquidationVars, callVars>>

(***************************************************************************)
(* The environment: collectors write signals, time passes                  *)
(***************************************************************************)
Collect ==
    /\ fed < Len(Feed)
    /\ fed' = fed + 1
    /\ LET e == Feed[fed + 1]
       IN  /\ tipster_signals' =
                IF e[1] = "tipster"
                THEN tipster_signals \cup {Stamp(TipsterFeed[e[2]], now)}
                ELSE tipster_signals
           /\ whale_transactions' =
                IF e[1] = "whale"
                THEN whale_transactions \cup {Stamp(WhaleFeed[e[2]], now)}
                ELSE whale_transactions
           /\ narrative_sentiments' =
                IF e[1] = "narrative"
                THEN narrative_sentiments \cup {Stamp(NarrativeFeed[e[2]], now)}
                ELSE narrative_sentiments
    /\ lookup' = NoLookup
    /\ UNCHANGED <<convergence_signals, whale_reports, ledger, now, tickVars,
                   pubVars, CONVERGENCE_ERC8004_ID, convergence_boosts,
                   liquidationVars, callVars>>

AdvanceTime ==
    /\ now < MaxTime
    /\ now' = now + 1
    /\ lookup' = NoLookup
    /\ UNCHANGED <<signalVars, convergence_signals, whale_reports, ledger,
                   tickVars, pubVars, CONVERGENCE_ERC8004_ID, convergence_boosts,
                   liquidationVars, callVars>>

(***************************************************************************)
(* submit_daily_proof of the whale agent (agents/whale/services/           *)
(* blockchain.py).  A text is a sequence of one-character strings, a       *)
(* report text the sequence of its lines.                                  *)
(***************************************************************************)
Digits == ("0" :> 0) @@ ("1" :> 1) @@ ("2" :> 2) @@ ("3" :> 3) @@ ("4" :> 4)
          @@ ("5" :> 5) @@ ("6" :> 6) @@ ("7" :> 7) @@ ("8" :> 8) @@ ("9" :> 9)

\* str.lower on the letters that occur
LowerChar(c) ==
    IF c = "S" THEN "s" ELSE IF c = "C" THEN "c" ELSE IF c = "O" THEN "o"
    ELSE IF c = "R" THEN "r" ELSE IF c = "E" THEN "e" ELSE c
Lower(s) == [k \in DOMAIN s |-> LowerChar(s[k])]

RECURSIVE LStrip(_)
LStrip(s) == IF s # << >> /\ Head(s) = " " THEN LStrip(Tail(s)) ELSE s
RECURSIVE RStrip(_)
RStrip(s) ==
    IF s # << >> /\ s[Len(s)] = " " THEN RStrip(SubSeq(s, 1, Len(s) - 1)) ELSE s
Strip(s) == RStrip(LStrip(s))

StartsWith(s, prefix) ==
    Len(s) >= Len(prefix) /\ SubSeq(s, 1, Len(prefix)) = prefix

\* s.split(sep)[-1]
AfterLast(s, sep) ==
    LET at == {k \in DOMAIN s : s[k] = sep}
    IN  IF at = {} THEN s
        ELSE SubSeq(s, (CHOOSE k \in at : \A m \in at : m <= k) + 1, Len(s))

\* the text itself, not split
Unsplit(s, sep) == s

\* s.split(sep)[0]
BeforeFirst(s, sep) ==
    LET at == {k \in DOMAIN s : s[k] = sep}
    IN  IF at = {} THEN s
        ELSE SubSeq(s, 1, (CHOOSE k \in at : \A m \in at : k <= m) - 1)

RECURSIVE DigitsValue(_)
DigitsValue(s) ==
    IF s = << >> THEN 0
    ELSE DigitsValue(SubSeq(s, 1, Len(s) - 1)) * 10 + Digits[s[Len(s)]]

\* int(text): None stands for ValueError
ParseInt(text) ==
    LET body == IF text # << >> /\ Head(text) \in {"-", "+"}
                THEN Tail(text) ELSE text
    IN  IF body = << >> \/ \E k \in DOMAIN body : body[k] \notin DOMAIN Digits
        THEN None
        ELSE Some(IF Head(text) = "-" THEN -DigitsValue(body)
                  ELSE DigitsValue(body))

\* the value a line of the loop of _extract_score returns, None if it goes on
ScoreOfLine(raw) ==
    LET line == Strip(raw)
    IN  IF StartsWith(Lower(line), <<"s", "c", "o", "r", "e", ":">>)
        THEN ParseInt(Strip(BeforeFirst(Strip(AfterLast(line, ":")), "/")))
        ELSE None

RECURSIVE _extract_score(_)
_extract_score(lines) ==
    IF lines = << >> THEN 50
    ELSE IF ~IsNone(ScoreOfLine(lines[Len(lines)]))
         THEN ScoreOfLine(lines[Len(lines)])[1]
    ELSE _extract_score(SubSeq(lines, 1, Len(lines) - 1))

\* _extract_score_from_report of the tipster agent (agents/tipster/services/
\* blockchain.py): the same loop on the 0-10000 scale; the text "" is the
\* one empty line
RECURSIVE TipsterScoreOfLines(_)
TipsterScoreOfLines(lines) ==
    IF lines = << >> THEN 5000
    ELSE IF ~IsNone(ScoreOfLine(lines[Len(lines)]))
         THEN ScoreOfLine(lines[Len(lines)])[1] * 100
    ELSE TipsterScoreOfLines(SubSeq(lines, 1, Len(lines) - 1))

_extract_score_from_report(lines) ==
    IF lines = << << >> >> THEN 5000 ELSE TipsterScoreOfLines(lines)

\* movers[0].get("label", "").upper() or None, top_movers being the labels
_extract_top_token(report) ==
    IF report.top_movers = << >> \/ report.top_movers[1] = "" THEN None
    ELSE Some(Upper(report.top_movers[1]))

\* x / 10 rounded up
CeilDiv10(x) == (x + 9) \div 10

\* int(x / 10), truncating toward zero
TruncDiv10(x) == IF x >= 0 THEN x \div 10 ELSE -((-x) \div 10)

WHALE_ERC8004_ID == 1635

\* the arguments of proof_oracle.submit_proof at lines 44-52
WhaleClaim(report, boost) ==
    [agent_id |-> WHALE_ERC8004_ID,
     score |-> TruncDiv10(_extract_score(report.report_text) * boost) * 100,
     score_decimals |-> 2,
     tag1 |-> "whale",
     tag2 |-> IF boost = 10 THEN <<"daily">> ELSE <<"daily-conv-", boost, "x">>,
     proof_uri |-> <<"whale://report/", report.id>>,
     proof_hash |-> IF IsNone(report.proof_hash) THEN Digest(<<"zero">>)
                    ELSE FromHex(report.proof_hash[1])]

ReportIds == {1, 2}

IdlePub == [pc |-> "idle", report |-> None, boost |-> 10, seq |-> 0, since |-> 0]

\* a finished call: its number, the calls finished when it started, its
\* argument and return value, whether the ledger accepted a submission of it
\* and whether it wrote to the store
Returned(seq, since, report_id, value, submitted, wrote) ==
    [seq |-> seq, since |-> since, report_id |-> report_id, ret |-> value,
     submitted |-> submitted, wrote |-> wrote]

\* a guard that never finds the report published
NeverSubmitted(report) == FALSE

\* line 29: if report.proof_tx_hash
AlreadySubmitted(report) == ~IsNone(report.proof_tx_hash)

\* lines 20-35: the report is read and the guard is checked
LoadReport(q, report_id) ==
    LET found == report_id \in DOMAIN whale_reports
        report == whale_reports[report_id]
        guarded == found /\ AlreadySubmitted(report)
        top_token == _extract_top_token(report)
    IN  /\ pub[q].pc = "idle"
        /\ calls < MaxCalls
        /\ calls' = calls + 1
        /\ IF ~found \/ guarded
           THEN /\ returns' = Append(returns,
                       Returned(calls + 1, Len(returns), report_id,
                                IF found THEN report.proof_tx_hash ELSE None,
                                FALSE, FALSE))
                /\ pub' = pub
           ELSE /\ returns' = returns
                /\ pub' = [pub EXCEPT ![q] =
                       [pc |-> IF IsNone(top_token) THEN "submit" ELSE "boost",
                        report |-> Some(report), boost |-> 10,
                        seq |-> calls + 1, since |-> Len(returns)]]
        /\ lookup' = NoLookup
        /\ UNCHANGED <<signalVars, convergence_signals, whale_reports, ledger,
                       now, tickVars, CONVERGENCE_ERC8004_ID, convergence_boosts,
                       liquidationVars, callVars>>

\* line 39: await get_convergence_boost("whale", top_token)
BoostStep(q) ==
    LET report == pub[q].report[1]
        top_token == _extract_top_token(report)
    IN  /\ pub[q].pc = "boost"
        /\ \E r \in get_convergence_boost("whale", top_token) :
              /\ pub' = [pub EXCEPT ![q].pc = "submit", ![q].boost = r.value]
              /\ lookup' = [agent_name |-> "whale", token_symbol |-> top_token,
                            raised |-> r.raised, value |-> r.value]
        /\ UNCHANGED <<signalVars, convergence_signals, whale_reports, ledger,
                       now, tickVars, calls, returns, CONVERGENCE_ERC8004_ID, convergence_boosts,
                       liquidationVars,
                       callVars>>

\* an update that stores proof_uri whatever the submission comes to
ReportsAfterEagerUri(report, outcome, tx_hash, proof_uri) ==
    [whale_reports EXCEPT ![report.id] =
        [@ EXCEPT !.proof_tx_hash =
                     IF outcome = "recorded" THEN Some(tx_hash) ELSE @,
                  !.proof_uri = Some(proof_uri)]]

\* lines 54-59 and 62-64: whale_reports after the submission
ReportsAfterSubmit(report, outcome, tx_hash, proof_uri) ==
    IF outcome = "recorded"
    THEN [whale_reports EXCEPT ![report.id] =
            [@ EXCEPT !.proof_tx_hash = Some(tx_hash),
                      !.proof_uri = Some(proof_uri)]]
    ELSE whale_reports

\* lines 43-64: the ledger call, then the update of proof_tx_hash and
\* proof_uri and its commit; an exception is logged and None is returned
SubmitProof(q) ==
    LET report == pub[q].report[1]
        claim == WhaleClaim(report, pub[q].boost)
        tx_hash == Len(ledger) + 1
    IN  /\ pub[q].pc = "submit"
        /\ \E outcome \in LedgerOutcomes :
              /\ ledger' = LedgerAfter(claim, outcome)
              /\ whale_reports' =
                    ReportsAfterSubmit(report, outcome, tx_hash, claim.proof_uri)
              /\ returns' = Append(returns,
                    Returned(pub[q].seq, pub[q].since, report.id,
                             IF outcome = "recorded" THEN Some(tx_hash)
                             ELSE None,
                             outcome # "rejected", outcome = "recorded"))
        /\ pub' = [pub EXCEPT ![q] = IdlePub]
        /\ lookup' = NoLookup
        /\ UNCHANGED <<signalVars, convergence_signals, now, tickVars, calls,
                       CONVERGENCE_ERC8004_ID, convergence_boosts,
                       liquidationVars, callVars>>

(***************************************************************************)
(* submit_daily_proof of the liquidation agent (agents/liquidation/        *)
(* services/blockchain.py)                                                 *)
(***************************************************************************)
\* finished: calls that have ended; raised: the last call raised
IdleLiq == [pc |-> "idle", report |-> None, finished |-> 0, raised |-> FALSE,
            ret |-> None]

\* a stored daily report of the liquidation agent
LiquidationReport1 ==
    [id |-> 1, prediction_accuracy_pct |-> Some(80),
     proof_hash |-> Some(<<"0x", HexDigest(Sha256("liquidation 1"))>>),
     proof_tx_hash |-> None, proof_uri |-> None]

\* lines 20-35: the report is read and the guard is checked
LiquidationLoad(report_id) ==
    LET found == report_id \in DOMAIN liquidation_reports
        report == liquidation_reports[report_id]
    IN  /\ liq.pc = "idle"
        /\ liq.finished < MaxCalls
        /\ liq' = IF ~found \/ ~IsNone(report.proof_tx_hash)
                  THEN [IdleLiq EXCEPT !.finished = liq.finished + 1,
                           !.ret = IF found THEN report.proof_tx_hash ELSE None]
                  ELSE [liq EXCEPT !.pc = "boost", !.report = Some(report),
                                   !.raised = FALSE, !.ret = None]
        /\ lookup' = NoLookup
        /\ UNCHANGED <<signalVars, convergence_signals, whale_reports, ledger,
                       now, tickVars, pubVars, CONVERGENCE_ERC8004_ID,
                       convergence_boosts, liquidation_reports, callVars>>

\* line 38: await get_convergence_boost("liquidation", None), outside the
\* try of lines 42-63: an exception of the lookup leaves submit_daily_proof
LiquidationBoost ==
    /\ liq.pc = "boost"
    /\ \E r \in get_convergence_boost("liquidation", None) :
          /\ liq' = IF r.raised
                    THEN [IdleLiq EXCEPT !.finished = liq.finished + 1,
                                         !.raised = TRUE]
                    ELSE [liq EXCEPT !.pc = "submit"]
          /\ lookup' = [agent_name |-> "liquidation", token_symbol |-> None,
                        raised |-> r.raised, value |-> r.value]
    /\ UNCHANGED <<signalVars, convergence_signals, whale_reports, ledger,
                   now, tickVars, pubVars, CONVERGENCE_ERC8004_ID,
                   convergence_boosts, liquidation_reports, callVars>>

(***************************************************************************)
(* Direct calls of the pure functions                                      *)
(***************************************************************************)
NoCall == [fn |-> "none", raised |-> FALSE, row |-> None, da |-> None,
           before |-> None]
NoArg == [token |-> "AVAX", tipster |-> None, whale |-> None, narrative |-> None]

\* report_text.encode(): the bytes of a text, as a record so that every
\* hashed payload is one
Encode(text) == [text |-> text]

\* the text ask_claude returned for the report
Report1Text ==
    <<<<"W", "h", "a", "l", "e", "s", " ", "u", "p">>,
      <<"S", "c", "o", "r", "e", ":", " ", "7", "2", "/", "1", "0", "0">>>>

\* the report generate_daily_report stored: text, hash of the text, movers
Report1 ==
    [id |-> 1,
     report_text |-> Report1Text,
     top_movers |-> <<"avax">>,
     proof_hash |-> Some(<<"0x", HexDigest(Sha256(Encode(Report1Text)))>>),
     proof_tx_hash |-> None,
     proof_uri |-> None]

Init ==
    /\ tipster_signals = {Stamp(TipsterFeed[1], 0), Stamp(TipsterFeed[3], 0)}
    /\ whale_transactions = {Stamp(WhaleFeed[1], 0)}
    /\ narrative_sentiments = {Stamp(NarrativeFeed[1], 0)}
    /\ fed = 0
    /\ convergence_signals = << >>
    /\ whale_reports = <<Report1>>
    /\ ledger = << >>
    /\ now = 0
    /\ tick = [p \in Procs |-> IdleTick]
    /\ started = 0
    /\ errors = {}
    /\ lookup = NoLookup
    /\ pub = [q \in Callers |-> IdlePub]
    /\ calls = 0
    /\ returns = << >>
    /\ CONVERGENCE_ERC8004_ID \in {0, 1}
    /\ convergence_boosts = << >>
    /\ liquidation_reports = <<LiquidationReport1>>
    /\ liq = IdleLiq
    /\ arg = NoArg
    /\ ret = NoCall

\* the detection engine: two processes run detect_convergence, collectors
\* write signals, agents look boosts up
Next ==
    \/ \E p \in Procs : Scan(p)
    \/ \E p \in Procs : \E a \in Agents : ScanFails(p, a)
    \/ \E p \in Procs : CheckExisting(p)
    \/ \E p \in Procs : Commit(p)
    \/ \E p \in Procs : SubmitMetaProof(p)
    \/ Lookup
    \/ Collect
    \/ AdvanceTime

Spec == Init /\ [][Next]_vars

\* the publishers: two callers run submit_daily_proof while one process runs
\* detect_convergence
NextPublish ==
    \/ \E q \in Callers : \E r \in ReportIds : LoadReport(q, r)
    \/ \E q \in Callers : BoostStep(q)
    \/ \E q \in Callers : SubmitProof(q)
    \/ Scan("service")
    \/ CheckExisting("service")
    \/ Commit("service")
    \/ SubmitMetaProof("service")
    \/ AdvanceTime

SpecPublish == Init /\ [][NextPublish]_vars

\* the liquidation publisher beside one detection process and the lookups
\* of other agents
NextLiquidation ==
    \/ \E r \in ReportIds : LiquidationLoad(r)
    \/ LiquidationBoost
    \/ Lookup
    \/ Scan("service")
    \/ CheckExisting("service")
    \/ Commit("service")
    \/ SubmitMetaProof("service")
    \/ AdvanceTime

SpecLiquidation == Init /\ [][NextLiquidation]_vars

\* a collector writes one more AVAX row after the rows of the start have left
\* the window: the tipster a BUY signal, the whale tracker a swap, the
\* narrative agent a bullish mention
Recollect(agent) ==
    /\ agent \in Agents
    /\ now >= 1
    /\ tipster_signals' =
          IF agent = "tipster"
          THEN tipster_signals \cup
                  {Stamp([TipsterFeed[1] EXCEPT !.id = Len(TipsterFeed) + now], now)}
          ELSE tipster_signals
    /\ whale_transactions' =
          IF agent = "whale"
          THEN whale_transactions \cup
                  {Stamp([WhaleFeed[1] EXCEPT !.id = Len(WhaleFeed) + now], now)}
          ELSE whale_transactions
    /\ narrative_sentiments' =
          IF agent = "narrative"
          THEN narrative_sentiments \cup
                  {Stamp([NarrativeFeed[1] EXCEPT !.id = Len(NarrativeFeed) + now],
                         now)}
          ELSE narrative_sentiments
    /\ <<tipster_signals', whale_transactions', narrative_sentiments'>>
          # <<tipster_signals, whale_transactions, narrative_sentiments>>
    /\ lookup' = NoLookup
    /\ UNCHANGED <<fed, convergence_signals, whale_reports, ledger, now,
                   tickVars, pubVars, CONVERGENCE_ERC8004_ID, convergence_boosts,
                   liquidationVars, callVars>>

\* one detection process whose ticks run one at a time, the collectors going
\* on
NextSerial ==
    \/ Scan("service")
    \/ CheckExisting("service")
    \/ Commit("service")
    \/ SubmitMetaProof("service")
    \/ \E agent \in Agents : Recollect(agent)
    \/ AdvanceTime

SpecSerial == Init /\ [][NextSerial]_vars

\* all three agents have reported AVAX and JOE within one window, so that a
\* tick finds two 3-agent overlaps
InitBatch ==
    /\ tipster_signals = {Stamp(TipsterFeed[1], 0), Stamp(TipsterFeed[2], 0),
                          Stamp(TipsterFeed[3], 0)}
    /\ whale_transactions = {Stamp(WhaleFeed[1], 0), Stamp(WhaleFeed[2], 0)}
    /\ narrative_sentiments = {Stamp(NarrativeFeed[1], 0),
                               Stamp(NarrativeFeed[2], 0)}
    /\ fed = Len(Feed)
    /\ convergence_signals = << >>
    /\ whale_reports = <<Report1>>
    /\ ledger = << >>
    /\ now = 0
    /\ tick = [p \in Procs |-> IdleTick]
    /\ started = 0
    /\ errors = {}
    /\ lookup = NoLookup
    /\ pub = [q \in Callers |-> IdlePub]
    /\ calls = 0
    /\ returns = << >>
    /\ CONVERGENCE_ERC8004_ID \in {0, 1}
    /\ convergence_boosts = << >>
    /\ liquidation_reports = <<LiquidationReport1>>
    /\ liq = IdleLiq
    /\ arg = NoArg
    /\ ret = NoCall

\* the ticks of one detection process on these signals, and the lookups
NextBatch ==
    \/ Scan("service")
    \/ CheckExisting("service")
    \/ Commit("service")
    \/ SubmitMetaProof("service")
    \/ Lookup
    \/ AdvanceTime

SpecBatch == InitBatch /\ [][NextBatch]_vars

\* the interval trigger goes on for ever: once the ticks counted are over and
\* the process is idle, the count starts again
Reschedule ==
    /\ started = MaxTicks
    /\ \A p \in Procs : tick[p].pc = "idle"
    /\ started' = 0
    /\ lookup' = NoLookup
    /\ UNCHANGED <<signalVars, convergence_signals, whale_reports, ledger,
                   now, tick, errors, pubVars, CONVERGENCE_ERC8004_ID,
                   convergence_boosts, liquidationVars, callVars>>

\* the ledger accepts a meta-proof and the store records it
MetaProofRecorded(p) ==
    SubmitMetaProof(p) /\ convergence_signals' # convergence_signals

\* the convergence service alone, scheduled for ever
NextLive ==
    \/ Scan("service")
    \/ CheckExisting("service")
    \/ Commit("service")
    \/ SubmitMetaProof("service")
    \/ Collect
    \/ AdvanceTime
    \/ Reschedule

\* the job "gw_convergence" of the gateway fires: the scheduler calls the
\* lambda in a thread of its pool, asyncio.ensure_future finds no event loop
\* there and raises RuntimeError, which the scheduler logs; _safe_run and
\* detect_convergence are not run
GatewayJob ==
    /\ errors' = errors \cup {"RuntimeError"}
    /\ lookup' = NoLookup
    /\ UNCHANGED <<signalVars, convergence_signals, whale_reports, ledger,
                   now, tick, started, pubVars, CONVERGENCE_ERC8004_ID,
                   convergence_boosts, liquidationVars, callVars>>

\* the scheduled jobs of the convergence service and of the gateway
NextSchedule ==
    \/ Scan("service")
    \/ \E a \in Agents : ScanFails("service", a)
    \/ CheckExisting("service")
    \/ Commit("service")
    \/ SubmitMetaProof("service")
    \/ GatewayJob
    \/ Collect
    \/ AdvanceTime
    \/ Reschedule

SpecSchedule == Init /\ [][NextSchedule]_vars

\* every step of a tick that can be taken is taken, ticks keep being
\* scheduled, time passes, and a ledger that is asked again and again
\* accepts in the end
SpecLive ==
    /\ Init
    /\ [][NextLive]_vars
    /\ WF_vars(Scan("service"))
    /\ WF_vars(CheckExisting("service"))
    /\ WF_vars(Commit("service"))
    /\ WF_vars(SubmitMetaProof("service"))
    /\ WF_vars(Collect)
    /\ WF_vars(AdvanceTime)
    /\ WF_vars(Reschedule)
    /\ SF_vars(MetaProofRecorded("service"))

\* per-agent lookups of one token, as the scanner can hand them on
TipsterArgs ==
    {None} \cup
    {Some([signal_id |-> 1, confidence |-> c[1], signal_type |-> c[2]]) :
        c \in {<<70, "BUY">>, <<50, "HOLD">>, <<70, "SELL">>, <<50, "AVOID">>,
               <<70, "NEUTRAL">>}}
WhaleArgs ==
    {None} \cup
    {Some([tx_id |-> 1, significance |-> g, tx_type |-> x, amount_usd |-> 9]) :
        g \in {"medium", "critical", "unrated"},
        x \in {"swap", "transfer", "unknown"}}
NarrativeArgs ==
    {None} \cup
    {Some([sentiment_id |-> 1, sentiment_score |-> v,
           overall_sentiment |-> "any"]) :
        v \in {None, Some(50), Some(20), Some(0), Some(-20), Some(-50)}}

\* the arguments _determine_direction gets for these lookups
SignalTypeOf(t) == IF IsNone(t) THEN None ELSE Some(t[1].signal_type)
TxTypeOf(w) == IF IsNone(w) THEN None ELSE Some(w[1].tx_type)
SentimentOf(n) == IF IsNone(n) THEN None ELSE n[1].sentiment_score

InitPure ==
    /\ tipster_signals = {}
    /\ whale_transactions = {}
    /\ narrative_sentiments = {}
    /\ fed = 0
    /\ convergence_signals = << >>
    /\ whale_reports = <<Report1>>
    /\ ledger = << >>
    /\ now = 0
    /\ tick = [p \in Procs |-> IdleTick]
    /\ started = 0
    /\ errors = {}
    /\ lookup = NoLookup
    /\ pub = [q \in Callers |-> IdlePub]
    /\ calls = 0
    /\ returns = << >>
    /\ CONVERGENCE_ERC8004_ID = 0
    /\ convergence_boosts = << >>
    /\ liquidation_reports = <<LiquidationReport1>>
    /\ liq = IdleLiq
    /\ \E t \in TipsterArgs : \E w \in WhaleArgs : \E n \in NarrativeArgs :
          arg = [token |-> "AVAX", tipster |-> t, whale |-> w, narrative |-> n]
    /\ ret = NoCall

CallDetermineDirection ==
    /\ ret' = [fn |-> "_determine_direction", raised |-> FALSE, row |-> None,
               da |-> Some(_determine_direction(SignalTypeOf(arg.tipster),
                                                TxTypeOf(arg.whale),
                                                SentimentOf(arg.narrative))),
               before |-> None]
    /\ UNCHANGED <<signalVars, convergence_signals, whale_reports, ledger,
                   now, tickVars, lookup, pubVars, CONVERGENCE_ERC8004_ID,
                   convergence_boosts, liquidationVars, arg>>

CallSynthesize ==
    /\ LET r == Synthesize(arg.token, arg.tipster, arg.whale, arg.narrative)
       IN  ret' = [fn |-> "synthesize", raised |-> r.raised, row |-> r.row,
                   da |-> None, before |-> None]
    /\ UNCHANGED <<signalVars, convergence_signals, whale_reports, ledger,
                   now, tickVars, lookup, pubVars, CONVERGENCE_ERC8004_ID,
                   convergence_boosts, liquidationVars, arg>>

\* a second invocation on the same overlap by a tick at a later time; the
\* result of the first one is kept beside it
CallSynthesizeAgain ==
    /\ ret.fn = "synthesize"
    /\ \E at \in 1..MaxTime :
          LET r == SynthesizeAt(arg.token, arg.tipster, arg.whale,
                                arg.narrative, at - WindowTicks, at)
          IN  ret' = [fn |-> "synthesize again", raised |-> r.raised,
                      row |-> r.row, da |-> None,
                      before |-> Some([raised |-> ret.raised, row |-> ret.row])]
    /\ UNCHANGED <<signalVars, convergence_signals, whale_reports, ledger,
                   now, tickVars, lookup, pubVars, CONVERGENCE_ERC8004_ID,
                   convergence_boosts, liquidationVars, arg>>

\* lines 197-199 on their own, for the agent counts of a wider agent set
CallMultiplier ==
    /\ \E agent_count \in 2..MaxAgentCount : \E agreement \in BOOLEAN :
          ret' = [fn |-> "multiplier", raised |-> FALSE,
                  row |-> Some([agent_count |-> agent_count,
                                direction_agreement |-> agreement,
                                convergence_multiplier |->
                                    Multiplier(agent_count, agreement)]),
                  da |-> None, before |-> None]
    /\ UNCHANGED <<signalVars, convergence_signals, whale_reports, ledger,
                   now, tickVars, lookup, pubVars, CONVERGENCE_ERC8004_ID,
                   convergence_boosts, liquidationVars, arg>>

\* the lines report texts are made of; the last one is the empty line
ReportLines ==
    {<<"W", "h", "a", "l", "e", "s", " ", "u", "p">>,
     <<"S", "c", "o", "r", "e", ":", " ", "7", "2", "/", "1", "0", "0">>,
     <<"S", "c", "o", "r", "e", ":", " ", "8", "/", "1", "0", "0">>,
     <<"S", "c", "o", "r", "e", ":", " ", "n", "/", "a">>,
     <<" ", "s", "c", "o", "r", "e", ":", "1", "0", "0", "/", "1", "0", "0",
       " ">>,
     << >>}

\* text.split("\n") of the report texts of up to MaxLines lines
ReportTexts == UNION {[1..n -> ReportLines] : n \in 1..MaxLines}

\* _extract_score and _extract_score_from_report on a report text, called
\* where no overlap is at hand
CallExtractScore ==
    /\ arg = NoArg
    /\ \E text \in ReportTexts :
          ret' = [fn |-> "_extract_score", raised |-> FALSE,
                  row |-> Some([report_text |-> text,
                                whale |-> _extract_score(text),
                                tipster |-> _extract_score_from_report(text)]),
                  da |-> None, before |-> None]
    /\ UNCHANGED <<signalVars, convergence_signals, whale_reports, ledger,
                   now, tickVars, lookup, pubVars, CONVERGENCE_ERC8004_ID,
                   convergence_boosts, liquidationVars, arg>>

NextPure ==
    \/ CallDetermineDirection
    \/ CallSynthesize
    \/ CallSynthesizeAgain
    \/ CallMultiplier
    \/ CallExtractScore

SpecPure == InitPure /\ [][NextPure]_vars

(***************************************************************************)
(* Properties                                                              *)
(***************************************************************************)
\* the non-neutral votes of the three agents for the arguments of a direct
\* call, an absent agent and a neutral one casting none
ArgVotes ==
    TipsterVote(SignalTypeOf(arg.tipster)) \o WhaleVote(TxTypeOf(arg.whale))
    \o NarrativeVote(SentimentOf(arg.narrative))
ArgVoteSet == {ArgVotes[k] : k \in DOMAIN ArgVotes}
ArgAgentCount == Len(OverlapAgents(arg.tipster, arg.whale, arg.narrative))
DirectionCalled == ret.fn = "_determine_direction"
SynthesizeCalled == ret.fn = "synthesize"

\* C8 as stated: when at least one vote is non-neutral and all non-neutral
\* votes are equal the direction is that value with agreement; bullish and
\* bearish together give mixed without agreement; all neutral gives neutral
\* without agreement.
C8_DirectionRuleAsStated ==
    DirectionCalled =>
        /\ \A d \in {"bullish", "bearish"} :
              ArgVoteSet = {d} => ret.da = Some(<<d, TRUE>>)
        /\ ArgVoteSet = {"bullish", "bearish"} => ret.da = Some(<<"mixed", FALSE>>)
        /\ ArgVoteSet = {} => ret.da = Some(<<"neutral", FALSE>>)

\* C8 amended: agreement needs at least two non-neutral votes, all equal; a
\* single non-neutral vote gives its direction without agreement; bullish and
\* bearish together give mixed without agreement; no non-neutral vote gives
\* neutral without agreement.
C8_DirectionRule ==
    DirectionCalled =>
        /\ \A d \in {"bullish", "bearish"} :
              ArgVoteSet = {d} => ret.da = Some(<<d, Len(ArgVotes) >= 2>>)
        /\ ArgVoteSet = {"bullish", "bearish"} => ret.da = Some(<<"mixed", FALSE>>)
        /\ ArgVoteSet = {} => ret.da = Some(<<"neutral", FALSE>>)

\* a direct call with exactly one non-neutral vote has returned
C8_Witness ==
    /\ DirectionCalled
    /\ Len(ArgVotes) = 1
    /\ ArgAgentCount = 3
    /\ ret.da = Some(<<"bearish", FALSE>>)

\* C5 as stated: an overlap of two or more agents that the scanner produced
\* and that has no row in the window yields a ConvergenceResult (the tick
\* holds a new row for its token after handling it), and no result is ever
\* produced for fewer than two agents.
C5_OverlapThreshold ==
    [][\A p \in Procs :
        /\ \A k \in DOMAIN tick'[p].new_convergences :
              tick'[p].new_convergences[k].agent_count >= 2
        /\ (/\ tick[p].pc = "loop"
            /\ tick'[p] # tick[p]
            /\ tick[p].overlaps[tick[p].i].agent_count >= 2
            /\ ExistingRows(tick[p].overlaps[tick[p].i].token_symbol,
                            tick[p].cutoff) = {})
           => \E k \in DOMAIN tick'[p].new_convergences :
                 tick'[p].new_convergences[k].token_symbol
                    = tick[p].overlaps[tick[p].i].token_symbol]_vars

\* the normalized scores of the agents present in the arguments of a call
ArgScores ==
    (IF IsNone(arg.tipster) THEN << >> ELSE <<arg.tipster[1].confidence>>)
    \o (IF IsNone(arg.whale) THEN << >>
        ELSE <<CASE arg.whale[1].significance = "low" -> 25
                 [] arg.whale[1].significance = "high" -> 75
                 [] arg.whale[1].significance = "critical" -> 100
                 [] OTHER -> 50>>)
    \o (IF IsNone(arg.narrative) THEN << >>
        ELSE IF IsNone(arg.narrative[1].sentiment_score) THEN <<0>>
        ELSE <<Abs(arg.narrative[1].sentiment_score[1])>>)

\* C6 as stated: every overlap of two or more agents gets a result whose
\* agent_count is the number of agents, whose score is the mean of the
\* normalized scores times the multiplier; tipster 70 bullish with whale 50
\* bullish gives agent_count 2, agreement, multiplier 1.7 and score 102.
C6_Scores ==
    (SynthesizeCalled /\ ArgAgentCount >= 2) =>
        /\ ~ret.raised
        /\ ~IsNone(ret.row)
        /\ ret.row[1].agent_count = ArgAgentCount
        /\ ret.row[1].convergence_score =
              ((SumSeq(ArgScores) * 6) \div ArgAgentCount)
                 * ret.row[1].convergence_multiplier
        /\ (/\ arg.tipster = Some([signal_id |-> 1, confidence |-> 70,
                                   signal_type |-> "BUY"])
            /\ arg.whale = Some([tx_id |-> 1, significance |-> "medium",
                                 tx_type |-> "swap", amount_usd |-> 9])
            /\ arg.narrative = None)
           => /\ ret.row[1].agent_count = 2
              /\ ret.row[1].direction_agreement
              /\ ret.row[1].convergence_multiplier = 17
              /\ ret.row[1].convergence_score = 102 * 60

\* C7 as stated: an overlap of two agents gets multiplier 1.5, one of three
\* agents 2.0, and 0.2 more exactly when the directions agree.
C7_MultiplierTable ==
    (SynthesizeCalled /\ ArgAgentCount \in {2, 3}) =>
        /\ ~IsNone(ret.row)
        /\ ret.row[1].convergence_multiplier =
              (IF ArgAgentCount = 2 THEN 15 ELSE 20)
              + (IF ret.row[1].direction_agreement THEN 2 ELSE 0)
        /\ ret.row[1].direction_agreement
              = (Cardinality(ArgVoteSet) = 1 /\ Len(ArgVotes) >= 2)

\* two rows of one token fall into the same window: the window of the later
\* row contains the detection of the earlier one
SameWindow(a, b) ==
    /\ a.token_symbol = b.token_symbol
    /\ b.window_start <= a.detected_at
    /\ a.detected_at <= b.detected_at

\* C1 as stated: the store never holds two ConvergenceResults of one token
\* for the same window, however the detection ticks interleave.
C1_OneRowPerWindow ==
    \A i \in DOMAIN convergence_signals : \A j \in DOMAIN convergence_signals :
        i < j => ~SameWindow(convergence_signals[i], convergence_signals[j])

\* the convergence row a ledger submission refers to
ClaimRow(claim) == convergence_signals[claim.proof_uri[2]]

\* C4 as stated: the ledger never holds two convergence claims for the same
\* token and window.
C4_OneClaimPerWindow ==
    \A i \in DOMAIN ledger : \A j \in DOMAIN ledger :
        (i < j /\ ledger[i].tag1 = "convergence" /\ ledger[j].tag1 = "convergence")
        => ~SameWindow(ClaimRow(ledger[i]), ClaimRow(ledger[j]))

\* C9 as stated: a lookup for a token returns the recorded multiplier of
\* every committed result of that token inside the active window that
\* involves the calling agent, and 1.0 when such a result does not involve it.
C9_BoostVisibility ==
    lookup.agent_name # "" =>
        \A k \in ExistingRows(Upper(lookup.token_symbol[1]), now - WindowTicks) :
            lookup.value =
                IF InList(lookup.agent_name, convergence_signals[k].agents_involved)
                THEN convergence_signals[k].convergence_multiplier
                ELSE 10

\* the overlaps of one token when the rows of one agent cannot be read
HealthyOverlaps(agent, cutoff, token) ==
    {MakeOverlap(token, t, w, n) :
        t \in IF agent = "tipster" THEN {None} ELSE TipsterFirsts(cutoff, token),
        w \in IF agent = "whale" THEN {None} ELSE WhaleFirsts(cutoff, token),
        n \in IF agent = "narrative" THEN {None}
              ELSE NarrativeFirsts(cutoff, token)} \ {None}

\* C10 as stated: when the query of one agent fails the tick does not raise;
\* it goes on with the overlaps of the two healthy agents.
C10_PartialOutage ==
    [][\A p \in Procs : \A a \in Agents :
        ScanFails(p, a) =>
            /\ errors' = errors
            /\ \A k \in Tokens :
                  HealthyOverlaps(a, now - WindowTicks, k) # {} =>
                      \E m \in DOMAIN tick'[p].overlaps :
                          tick'[p].overlaps[m].token_symbol = k]_vars

\* the ledger submissions made for a whale report
ReportClaims(report_id) ==
    {k \in DOMAIN ledger : ledger[k].proof_uri = <<"whale://report/", report_id>>}

\* the first submit_daily_proof call succeeded and no other call ran while it
\* was running
FirstCallAlone ==
    /\ returns # << >>
    /\ returns[1].seq = 1
    /\ ~IsNone(returns[1].ret)
    /\ \A j \in DOMAIN returns : j >= 2 => returns[j].since >= 1
    /\ \A q \in Callers : pub[q].pc # "idle" => pub[q].since >= 1

\* C2: a publish call for a report made after a first, successful call for
\* it has finished returns the transaction reference the first call
\* returned, submits nothing and leaves the report as the first call wrote
\* it; the ledger holds exactly one submission for the report.
C2_SequentialPublish ==
    FirstCallAlone =>
        /\ Cardinality(ReportClaims(returns[1].report_id)) = 1
        /\ whale_reports[returns[1].report_id].proof_tx_hash = returns[1].ret
        /\ \A j \in DOMAIN returns :
              (j >= 2 /\ returns[j].report_id = returns[1].report_id) =>
                  /\ returns[j].ret = returns[1].ret
                  /\ ~returns[j].submitted
                  /\ ~returns[j].wrote

\* a second call for the same report has returned after a successful first
C2_Witness ==
    /\ FirstCallAlone
    /\ Len(returns) >= 2
    /\ returns[2].report_id = returns[1].report_id
    /\ returns[2].ret = Some(Len(ledger))

\* C3 as stated: however two publish calls for one report interleave, the
\* ledger gets at most one submission for the report and proof_tx_hash is
\* written at most once.
C3_ConcurrentPublish ==
    \A r \in ReportIds :
        /\ Cardinality(ReportClaims(r)) <= 1
        /\ Cardinality({k \in DOMAIN returns :
                           returns[k].report_id = r /\ returns[k].wrote}) <= 1

\* a committed result inside the active window that involves the agent
Qualifying(agent_name, token_symbol) ==
    {k \in ExistingRows(Upper(token_symbol[1]), now - WindowTicks) :
        InList(agent_name, convergence_signals[k].agents_involved)}

\* C11 as stated: a lookup for which no qualifying result exists, the lookup
\* of a caller without a token included, returns 1.0 without raising, and no
\* publish call of the liquidation agent ends by an exception.
C11_BoostTotal ==
    /\ (/\ lookup.agent_name # ""
        /\ (IsNone(lookup.token_symbol)
            \/ Qualifying(lookup.agent_name, lookup.token_symbol) = {}))
       => (~lookup.raised /\ lookup.value = 10)
    /\ ~liq.raised

\* a submit_daily_proof call has just returned None from its submission
PublishFailed(q) ==
    /\ SubmitProof(q)
    /\ IsNone(returns'[Len(returns')].ret)

\* another call published the report while the call of q was running
OtherWrote(q) ==
    \E k \in DOMAIN returns :
        /\ k > pub[q].since
        /\ returns[k].wrote
        /\ returns[k].report_id = pub[q].report[1].id

\* C12 as stated: when the ledger submission of a publish call raises, the
\* store is as it was before the call, the transaction reference, the proof
\* hash and the proof URI of the identity are unset, and the call does not
\* submit again.
C12_FailedPublishAsStated ==
    [][/\ \A q \in Callers :
            PublishFailed(q) =>
                /\ whale_reports' = whale_reports
                /\ LET row == whale_reports'[pub[q].report[1].id]
                   IN  /\ OtherWrote(q) \/ IsNone(row.proof_tx_hash)
                       /\ OtherWrote(q) \/ IsNone(row.proof_uri)
                       /\ IsNone(row.proof_hash)
                /\ pub'[q].pc = "idle"
       /\ \A p \in Procs :
            (SubmitMetaProof(p) /\ ledger' = ledger) =>
                /\ convergence_signals' = convergence_signals
                /\ LET row == convergence_signals'[
                                tick[p].new_convergences[tick[p].i].id[1]]
                   IN  IsNone(row.proof_tx_hash) /\ IsNone(row.proof_hash)
                /\ tick'[p] # tick[p]]_vars

\* C12 amended: when the submission of a publish call fails, the store is as
\* it was before the call and the call does not submit again; the fields the
\* call writes stay unset (proof_tx_hash and proof_uri of a report, and
\* proof_hash and proof_tx_hash of a convergence result), the proof_hash of a
\* report staying as the report generation set it.
C12_FailedPublish ==
    [][/\ \A q \in Callers :
            PublishFailed(q) =>
                /\ whale_reports' = whale_reports
                /\ LET row == whale_reports'[pub[q].report[1].id]
                   IN  /\ OtherWrote(q) \/ IsNone(row.proof_tx_hash)
                       /\ OtherWrote(q) \/ IsNone(row.proof_uri)
                       /\ row.proof_hash = pub[q].report[1].proof_hash
                /\ pub'[q].pc = "idle"
       /\ \A p \in Procs :
            (SubmitMetaProof(p) /\ ledger' = ledger) =>
                /\ convergence_signals' = convergence_signals
                /\ LET row == convergence_signals'[
                                tick[p].new_convergences[tick[p].i].id[1]]
                   IN  IsNone(row.proof_tx_hash) /\ IsNone(row.proof_hash)
                /\ tick'[p] # tick[p]]_vars

\* a publish call that found the report unpublished has failed, and the
\* report is still unpublished
C12_Witness ==
    /\ returns # << >>
    /\ returns[1].seq = 1
    /\ IsNone(returns[1].ret)
    /\ returns[1].report_id = 1
    /\ IsNone(whale_reports[1].proof_tx_hash)
    /\ IsNone(whale_reports[1].proof_uri)
    /\ ledger = << >>

\* the 3-agent results whose meta-proof is due and not recorded
Unpublished ==
    {k \in DOMAIN convergence_signals :
        /\ CONVERGENCE_ERC8004_ID # 0
        /\ convergence_signals[k].agent_count = 3
        /\ IsNone(convergence_signals[k].proof_tx_hash)}

\* C13 as stated: a result whose meta-proof is not recorded is submitted
\* again by a later tick, so that with a ledger that accepts in the end every
\* such result gets published.
C13_RetryLiveness == (Unpublished # {}) ~> (Unpublished = {})

\* a ConvergenceResult without its proof attachment
Core(row) == [row EXCEPT !.proof_hash = None, !.proof_tx_hash = None]

\* C14: no step deletes a committed ConvergenceResult or changes its token,
\* window, agents, scores, multiplier or direction; proof_hash and
\* proof_tx_hash, once attached, never change again.
C14_AppendOnly ==
    [][\A k \in DOMAIN convergence_signals :
          /\ k \in DOMAIN convergence_signals'
          /\ Core(convergence_signals'[k]) = Core(convergence_signals[k])
          /\ ~IsNone(convergence_signals[k].proof_tx_hash) =>
                convergence_signals'[k] = convergence_signals[k]
          /\ IsNone(convergence_signals'[k].proof_tx_hash)
                = IsNone(convergence_signals'[k].proof_hash)]_vars

\* a result has its proof attached and a later tick has recorded another one
C14_Witness ==
    /\ Len(convergence_signals) >= 2
    /\ ~IsNone(convergence_signals[1].proof_tx_hash)
    /\ convergence_signals[1].detected_at < convergence_signals[2].detected_at

\* the fields of a result that synthesis computes from the observations
Synthesized(row) ==
    <<row.convergence_score, row.convergence_multiplier, row.signal_direction,
      row.direction_agreement>>

C16_UnknownOutcome ==
    \A k \in DOMAIN returns : \A j \in DOMAIN returns :
        (/\ returns[k].submitted
         /\ ~returns[k].wrote
         /\ returns[j].since >= k
         /\ returns[j].report_id = returns[k].report_id)
        => ~returns[j].submitted

\* the most recently detected results of a token inside the active window
MostRecent(token, cutoff) ==
    LET rows == ExistingRows(token, cutoff)
    IN  {k \in rows : \A m \in rows :
            convergence_signals[m].detected_at
               <= convergence_signals[k].detected_at}

\* C17 as stated: with results of the token inside the active window, a
\* lookup returns what the most recently detected one gives: its multiplier
\* if the agent is in its agents_involved, 1.0 otherwise.
C17_MostRecentDecides ==
    LET recent == MostRecent(Upper(lookup.token_symbol[1]), now - WindowTicks)
    IN  (lookup.agent_name # "" /\ recent # {}) =>
            \E k \in recent :
                lookup.value =
                    BoostOf(lookup.agent_name, Some(convergence_signals[k]))

\* C18: a step in which get_convergence_boost is called leaves the rows of
\* convergence_signals, convergence_boosts and the report tables, the signal
\* tables and the ledger as they were.
C18_PureRead ==
    [][lookup'.agent_name # "" =>
          UNCHANGED <<convergence_signals, convergence_boosts, whale_reports,
                      liquidation_reports, ledger, signalVars>>]_vars

\* a lookup has returned the multiplier of a recorded result
C18_Witness ==
    /\ lookup.agent_name = "whale"
    /\ lookup.value = 22
    /\ convergence_signals # << >>
    /\ convergence_boosts = << >>

\* C19 as stated: for an agent_count above 3 the multiplier is that of the
\* highest tier, 2.0, and 2.2 with direction agreement.
C19_MultiplierBeyondTable ==
    (ret.fn = "multiplier" /\ ret.row[1].agent_count > 3) =>
        ret.row[1].convergence_multiplier =
            IF ret.row[1].direction_agreement THEN 22 ELSE 20

\* C20 as stated: when the existence query of a tick finds results of the
\* token in the window, one or several, the tick raises nothing, skips the
\* token and keeps the results it has built for other tokens.
C20_DuplicateIsSuccess ==
    [][\A p \in Procs :
          (/\ tick[p].pc = "loop"
           /\ CheckExisting(p)
           /\ tick[p].overlaps[tick[p].i].agent_count >= 2
           /\ ExistingRows(tick[p].overlaps[tick[p].i].token_symbol,
                           tick[p].cutoff) # {})
          => /\ errors' = errors
             /\ tick[p].new_convergences # << >> =>
                   /\ tick'[p].pc \in {"loop", "commit"}
                   /\ tick'[p].new_convergences = tick[p].new_convergences]_vars

\* the agent has a qualifying signal for the token at or after the cutoff
HasSignal(agent, token, cutoff) ==
    CASE agent = "tipster" ->
            \E x \in tipster_signals :
                x.at >= cutoff /\ x.r.is_valid /\ Upper(x.r.token_symbol) = token
      [] agent = "whale" ->
            \E x \in whale_transactions :
                x.at >= cutoff /\ Upper(x.r.token_symbol) = token
      [] agent = "narrative" ->
            \E x \in narrative_sentiments :
                /\ x.at >= cutoff
                /\ \E k \in DOMAIN x.r.tokens_mentioned :
                      Upper(x.r.tokens_mentioned[k]) = token

\* the agents that have a qualifying signal for the token
SignalAgents(token, cutoff) == {a \in Agents : HasSignal(a, token, cutoff)}

\* a step in which _find_token_overlaps has returned to process p: the tick
\* has entered its loop, or it has ended at once on an empty list
ScanReturned(p) ==
    /\ tick[p].pc = "idle"
    /\ started' = started + 1
    /\ \/ tick'[p].pc = "loop"
       \/ tick' = tick /\ Scan(p)

\* C21: the overlaps a scan returns are those of the tokens for which at
\* least two agents have a qualifying signal in the window, each naming
\* exactly the agents that have one; and every agent in agents_involved of a
\* stored result has a signal for its token in the window of the result.
C21_OverlapRule ==
    [][/\ \A p \in Procs :
            ScanReturned(p) =>
                LET cutoff == now - WindowTicks
                    found == tick'[p].overlaps
                IN  /\ \A m \in DOMAIN found :
                          /\ found[m].agent_count >= 2
                          /\ \A a \in Agents :
                                InList(a, found[m].agents)
                                   <=> HasSignal(a, found[m].token_symbol, cutoff)
                    /\ \A k \in Tokens :
                          (\E m \in DOMAIN found : found[m].token_symbol = k)
                             <=> Cardinality(SignalAgents(k, cutoff)) >= 2
       /\ \A k \in DOMAIN convergence_signals' \ DOMAIN convergence_signals :
            LET row == convergence_signals'[k]
            IN  \A a \in Agents :
                    InList(a, row.agents_involved) =>
                        HasSignal(a, row.token_symbol, row.window_start)]_vars

\* a scan has returned the overlap of a token that two agents observed and
\* the third did not, while an invalid signal of the token is in the window
C21_Witness ==
    \E p \in Procs :
        /\ tick[p].pc = "loop"
        /\ \E m \in DOMAIN tick[p].overlaps :
              /\ tick[p].overlaps[m].token_symbol = "JOE"
              /\ tick[p].overlaps[m].agents = <<"tipster", "narrative">>
              /\ IsNone(tick[p].overlaps[m].whale)
        /\ \E x \in tipster_signals : ~x.r.is_valid /\ x.at >= tick[p].cutoff

\* C22: every convergence submission on the ledger is tagged 3-agent and is
\* for a result in which all three agents are involved, the tick chooses
\* only such results of its own for submission, and a result with another
\* agent_count has neither proof_hash nor proof_tx_hash.
C22_OnlyTopTier ==
    /\ \A k \in DOMAIN ledger :
          ledger[k].tag1 = "convergence" =>
              /\ ledger[k].tag2 = <<3, "-agent">>
              /\ ClaimRow(ledger[k]).agent_count = 3
              /\ Len(ClaimRow(ledger[k]).agents_involved) = 3
    /\ \A p \in Procs :
          tick[p].pc = "submit" =>
              tick[p].new_convergences[tick[p].i].agent_count = 3
    /\ \A k \in DOMAIN convergence_signals :
          convergence_signals[k].agent_count # 3 =>
              /\ IsNone(convergence_signals[k].proof_hash)
              /\ IsNone(convergence_signals[k].proof_tx_hash)

\* the ledger holds the submission of a recorded 3-agent result
C22_Witness ==
    \E k \in DOMAIN ledger :
        /\ ledger[k].tag1 = "convergence"
        /\ ClaimRow(ledger[k]).agent_count = 3
        /\ ClaimRow(ledger[k]).proof_tx_hash = Some(k)

\* the results a tick has built or added to its session and not committed
Pending(token) ==
    {p \in Procs :
        /\ tick[p].pc \in {"loop", "commit"}
        /\ \E k \in DOMAIN tick[p].new_convergences :
              tick[p].new_convergences[k].token_symbol = token}

\* C23: a lookup returns a multiplier other than 1.0 only if a committed
\* result of the token in the active window involves the agent and has that
\* multiplier; with no committed result it returns 1.0, whatever the ticks
\* have pending.
C23_CommittedOnly ==
    (lookup.agent_name # "" /\ ~lookup.raised) =>
        LET rows == ExistingRows(Upper(lookup.token_symbol[1]),
                                 now - WindowTicks)
        IN  /\ rows = {} => lookup.value = 10
            /\ lookup.value # 10 =>
                  \E k \in rows :
                      /\ InList(lookup.agent_name,
                                convergence_signals[k].agents_involved)
                      /\ convergence_signals[k].convergence_multiplier
                            = lookup.value

\* a lookup by an involved agent has returned 1.0 while a tick holds the
\* result of the token uncommitted
C23_Witness ==
    /\ lookup.agent_name = "whale"
    /\ lookup.value = 10
    /\ Pending(Upper(lookup.token_symbol[1])) # {}
    /\ convergence_signals = << >>

\* the overlaps of two or more agents that a tick started now would not skip
Unskipped(cutoff) ==
    UNION {{o[1] : o \in TokenOverlaps(cutoff, k) \ {None}} :
              k \in {x \in Tokens : ExistingRows(x, cutoff) = {}}}

\* the tokens for which a tick run now from start to end would record a
\* result: none if building one of its overlaps raises, the commit coming
\* after the loop
WouldRecord ==
    LET cutoff == now - WindowTicks
        todo == Unskipped(cutoff)
    IN  IF \E o \in todo : _build_convergence(o, cutoff, now, now).raised
        THEN {}
        ELSE {o.token_symbol : o \in todo}

\* C24: when a tick ends at the clock value it started at and the scanner
\* would still return what it returned to that tick, a tick run again at
\* once, by any process, finds nothing to record, and so nothing to submit.
C24_TickIdempotence ==
    [][\A p \in Procs :
          (/\ tick[p].pc # "idle"
           /\ tick'[p].pc = "idle"
           /\ now' = tick[p].now
           /\ tick[p].overlaps \in _find_token_overlaps(now - WindowTicks))
          => WouldRecord' = {}]_vars

\* a tick has recorded the result of a token whose overlap is still in the
\* window, and the processes are idle at the clock value of the detection
C24_Witness ==
    /\ \A p \in Procs : tick[p].pc = "idle"
    /\ Len(convergence_signals) = 1
    /\ convergence_signals[1].detected_at = now
    /\ TokenOverlaps(now - WindowTicks, convergence_signals[1].token_symbol)
          # {None}
    /\ WouldRecord = {}

\* C25 as stated: when building the result of one token of a tick fails, the
\* tick goes on: it keeps the results built for other tokens, handles the
\* remaining overlaps and commits.
C25_FailureIsolation ==
    [][\A p \in Procs :
          (/\ tick[p].pc = "loop"
           /\ CheckExisting(p)
           /\ tick[p].overlaps[tick[p].i].agent_count >= 2
           /\ ExistingRows(tick[p].overlaps[tick[p].i].token_symbol,
                           tick[p].cutoff) = {}
           /\ _build_convergence(tick[p].overlaps[tick[p].i], tick[p].cutoff,
                                 tick[p].now, now).raised
           /\ tick[p].new_convergences # << >>)
          => /\ tick'[p].pc \in {"loop", "commit"}
             /\ tick'[p].new_convergences = tick[p].new_convergences]_vars

\* C26: every stored ConvergenceResult has agent_count >= 2 equal to the
\* length of agents_involved, and the raw score and the source row id of an
\* agent are null exactly when the agent is not in agents_involved.
C26_RowShape ==
    \A k \in DOMAIN convergence_signals :
        LET row == convergence_signals[k]
            Involved(a) == InList(a, row.agents_involved)
        IN  /\ row.agent_count >= 2
            /\ row.agent_count = Len(row.agents_involved)
            /\ row.agent_count
                  = Cardinality({a \in Agents : Involved(a)})
            /\ IsNone(row.tipster_raw_score) = ~Involved("tipster")
            /\ IsNone(row.tipster_signal_id) = ~Involved("tipster")
            /\ IsNone(row.whale_raw_score) = ~Involved("whale")
            /\ IsNone(row.whale_tx_id) = ~Involved("whale")
            /\ IsNone(row.narrative_raw_score) = ~Involved("narrative")
            /\ IsNone(row.narrative_sentiment_id) = ~Involved("narrative")

\* a result is stored with the raw scores and the row ids of its agents
C26_Witness ==
    /\ convergence_signals # << >>
    /\ convergence_signals[1].agents_involved = <<"tipster", "whale", "narrative">>
    /\ convergence_signals[1].tipster_raw_score = Some(70)
    /\ convergence_signals[1].narrative_sentiment_id = Some(2)

\* the publish call q makes a ledger submission in this step
Submits(q) ==
    /\ pub[q].pc = "submit"
    /\ pub'[q].pc = "idle"
    /\ Len(ledger') = Len(ledger) + 1
    /\ ledger'[Len(ledger')].tag1 = "whale"

Numeral(n) ==
    LET d(k) == CHOOSE c \in DOMAIN Digits : Digits[c] = k
    IN  IF n < 10 THEN <<d(n)>>
        ELSE IF n < 100 THEN <<d(n \div 10), d(n % 10)>>
        ELSE <<d(n \div 100), d((n \div 10) % 10), d(n % 10)>>

\* the line "Score: n/100"
ScoreLine(n) ==
    <<"S", "c", "o", "r", "e", ":", " ">> \o Numeral(n) \o <<"/", "1", "0", "0">>

\* the line begins with "Score:", leading blanks and the case of the letters
\* aside
BeginsWithScore(line) ==
    \E k \in DOMAIN line :
        /\ \A m \in 1..(k - 1) : line[m] = " "
        /\ k + 5 <= Len(line)
        /\ line[k] \in {"S", "s"}
        /\ SubSeq(line, k + 1, k + 5) = <<"c", "o", "r", "e", ":">>

\* the line holds no number after "Score:", or is no "Score:" line at all
Unparseable(line) ==
    \/ line = <<"S", "c", "o", "r", "e", ":", " ", "n", "/", "a">>
    \/ ~\E k \in DOMAIN line : line[k] = ":"

\* C28: when the last line of a report text that begins with "Score:" is
\* "Score: N/100" the extracted score is N (N x 100 for the tipster); when the
\* text has no parseable such line, or is empty, it is 50 (5000).
C28_ScoreExtraction ==
    ret.fn = "_extract_score" =>
        LET text == ret.row[1].report_text
            scored == {k \in DOMAIN text : BeginsWithScore(text[k])}
            last == CHOOSE k \in scored : \A m \in scored : m <= k
        IN  /\ \A n \in 0..100 :
                  (scored # {} /\ text[last] = ScoreLine(n)) =>
                      /\ ret.row[1].whale = n
                      /\ ret.row[1].tipster = n * 100
            /\ (\A k \in DOMAIN text : Unparseable(text[k])) =>
                  /\ ret.row[1].whale = 50
                  /\ ret.row[1].tipster = 5000

\* the score is taken from the last of two "Score:" lines, and a text
\* without a number in its "Score:" line has been given the default
C28_Witness ==
    /\ ret.fn = "_extract_score"
    /\ ret.row[1].report_text \in
          {<<ScoreLine(72), ScoreLine(8), <<"W", "h", "a", "l", "e", "s", " ", "u", "p">>>>,
           <<ScoreLine(8), <<"S", "c", "o", "r", "e", ":", " ", "n", "/", "a">>>>}
    /\ ret.row[1].whale \in {8, 50}

\* the stored results of a token a lookup made at time t finds in its window
InLookupWindow(token, t) ==
    {k \in DOMAIN convergence_signals :
        /\ convergence_signals[k].token_symbol = token
        /\ convergence_signals[k].detected_at >= t - WindowTicks
        /\ convergence_signals[k].detected_at <= t}

\* C29: with one detection process, two stored results of one token are
\* detected more than one window apart, so at every instant at most one result
\* of a token is inside the lookup window.
C29_WindowsApart ==
    /\ \A i \in DOMAIN convergence_signals : \A j \in DOMAIN convergence_signals :
          (i < j /\ convergence_signals[i].token_symbol
                       = convergence_signals[j].token_symbol)
          => convergence_signals[j].detected_at
                 - convergence_signals[i].detected_at > WindowTicks
    /\ \A token \in Tokens : \A t \in 0..MaxTime :
          Cardinality(InLookupWindow(token, t)) <= 1

\* a token has a second result, detected after the window of the first
C29_Witness ==
    /\ Len(convergence_signals) >= 2
    /\ convergence_signals[1].token_symbol = convergence_signals[2].token_symbol
    /\ convergence_signals[1].detected_at + WindowTicks
          < convergence_signals[2].detected_at
    /\ InLookupWindow(convergence_signals[2].token_symbol, now) = {2}

\* the stored row is the result conv of a tick, its proof fields aside
CommittedAs(conv) ==
    /\ ~IsNone(conv.id)
    /\ conv.id[1] \in DOMAIN convergence_signals
    /\ LET row == convergence_signals[conv.id[1]]
       IN  /\ row.token_symbol = conv.token_symbol
           /\ row.detected_at = conv.detected_at
           /\ row.agents_involved = conv.agents_involved
           /\ row.convergence_score = conv.convergence_score

\* C30: a tick reaches its ledger submissions only with the whole batch of
\* its new results committed, and every convergence claim on the ledger
\* refers to a committed row.
C30_PersistBeforePublish ==
    /\ \A p \in Procs :
          tick[p].pc = "submit" =>
              \A k \in DOMAIN tick[p].new_convergences :
                  CommittedAs(tick[p].new_convergences[k])
    /\ \A k \in DOMAIN ledger :
          ledger[k].tag1 = "convergence" =>
              /\ ledger[k].proof_uri[2] \in DOMAIN convergence_signals
              /\ LET row == convergence_signals[ledger[k].proof_uri[2]]
                 IN  /\ row.id = Some(ledger[k].proof_uri[2])
                     /\ ledger[k].score = ScoreHundredths(row.convergence_score)
                     /\ ledger[k].proof_hash = Digest(Sha256(ProofData(row)))

\* a claim for the committed AVAX result is on the ledger while the row has
\* no transaction hash yet
C30_Witness ==
    /\ ledger # << >>
    /\ ledger[1].tag1 = "convergence"
    /\ ledger[1].proof_uri = <<"convergence://signal/", 1>>
    /\ convergence_signals # << >>
    /\ convergence_signals[1].token_symbol = "AVAX"
    /\ IsNone(convergence_signals[1].proof_tx_hash)

\* C31: a stored ConvergenceResult has proof_hash and proof_tx_hash both null
\* or both set, and they are set only when a ledger submission for that
\* result has returned the transaction reference stored.
C31_ProofFieldsTogether ==
    \A k \in DOMAIN convergence_signals :
        LET row == convergence_signals[k]
        IN  /\ IsNone(row.proof_hash) = IsNone(row.proof_tx_hash)
            /\ ~IsNone(row.proof_tx_hash) =>
                  /\ row.proof_tx_hash[1] \in DOMAIN ledger
                  /\ ledger[row.proof_tx_hash[1]].tag1 = "convergence"
                  /\ ledger[row.proof_tx_hash[1]].proof_uri
                        = <<"convergence://signal/", k>>

\* one result has both proof fields, and a submission for a result whose
\* fields are null has been accepted by the ledger without being recorded
C31_Witness ==
    /\ \E k \in DOMAIN convergence_signals :
          /\ ~IsNone(convergence_signals[k].proof_hash)
          /\ ~IsNone(convergence_signals[k].proof_tx_hash)
    /\ \E k \in DOMAIN convergence_signals :
          /\ IsNone(convergence_signals[k].proof_hash)
          /\ \E j \in DOMAIN ledger :
                ledger[j].proof_uri = <<"convergence://signal/", k>>

\* bytes.hex(): the hex text of a byte string
HexOf(bytes) == <<"hex", bytes[2]>>

\* C32: the content hash submitted for a published artifact is the hash
\* stored with it: the proof_hash of a convergence result is the hex form of
\* the digest submitted, taken of the same payload, and the bytes submitted
\* for a report are its stored proof_hash, the hash of the report text.
C32_SameHash ==
    /\ \A k \in DOMAIN convergence_signals :
          LET row == convergence_signals[k]
          IN  ~IsNone(row.proof_tx_hash) =>
                  /\ row.proof_hash
                        = Some(HexOf(ledger[row.proof_tx_hash[1]].proof_hash))
                  /\ ledger[row.proof_tx_hash[1]].proof_hash
                        = Digest(Sha256(ProofData(row)))
    /\ \A r \in DOMAIN whale_reports :
          \A k \in ReportClaims(r) :
              /\ ~IsNone(whale_reports[r].proof_hash)
              /\ <<"0x", HexOf(ledger[k].proof_hash)>>
                    = whale_reports[r].proof_hash[1]
              /\ ledger[k].proof_hash
                    = Digest(Sha256(Encode(whale_reports[r].report_text)))

\* a report and a convergence result are both published
C32_Witness ==
    /\ \E r \in DOMAIN whale_reports :
          /\ ~IsNone(whale_reports[r].proof_tx_hash)
          /\ ReportClaims(r) # {}
    /\ \E k \in DOMAIN convergence_signals :
          /\ ~IsNone(convergence_signals[k].proof_tx_hash)
          /\ convergence_signals[k].proof_hash
                = Some(HexDigest(Sha256(ProofData(convergence_signals[k]))))

\* the tick of p makes its ledger submission in this step and the ledger
\* does not take it
MetaProofFails(p) ==
    /\ tick[p].pc = "submit"
    /\ tick'[p] # tick[p]
    /\ ledger' = ledger

\* C33: a failed ledger submission for one 3-agent result of a tick leaves
\* the next new 3-agent result of the tick due for its own submission, and
\* every result the tick recorded stays committed whatever the outcome of a
\* submission.
C33_SubmissionIsolation ==
    [][/\ \A p \in Procs :
            MetaProofFails(p) =>
                LET t == tick[p]
                    later == {k \in DOMAIN t.new_convergences :
                                 k > t.i /\ t.new_convergences[k].agent_count = 3}
                IN  /\ convergence_signals' = convergence_signals
                    /\ later # {} =>
                          /\ tick'[p].pc = "submit"
                          /\ tick'[p].i \in later
                          /\ \A k \in later : tick'[p].i <= k
                          /\ tick'[p].new_convergences = t.new_convergences
       /\ \A p \in Procs :
            (tick[p].pc = "submit" /\ tick'[p] # tick[p]) =>
                \A k \in DOMAIN tick[p].new_convergences :
                    LET id == tick[p].new_convergences[k].id[1]
                    IN  /\ id \in DOMAIN convergence_signals'
                        /\ Core(convergence_signals'[id])
                              = Core(convergence_signals[id])]_vars

\* the ledger refused the submission for the first result of a tick and took
\* the one for the second
C33_Witness ==
    /\ Len(convergence_signals) = 2
    /\ convergence_signals[1].detected_at = convergence_signals[2].detected_at
    /\ IsNone(convergence_signals[1].proof_tx_hash)
    /\ convergence_signals[2].proof_tx_hash = Some(1)
    /\ Len(ledger) = 1
    /\ ledger[1].proof_uri = <<"convergence://signal/", 2>>

\* C34: with no convergence ledger identity configured a tick records its
\* results, makes no ledger call, and leaves proof_hash and proof_tx_hash of
\* every result null.
C34_NoIdentityNoProof ==
    CONVERGENCE_ERC8004_ID = 0 =>
        /\ \A k \in DOMAIN ledger : ledger[k].tag1 # "convergence"
        /\ \A p \in Procs : tick[p].pc # "submit"
        /\ \A k \in DOMAIN convergence_signals :
              /\ IsNone(convergence_signals[k].proof_hash)
              /\ IsNone(convergence_signals[k].proof_tx_hash)

\* a tick has recorded a 3-agent result and ended, no identity being set
C34_Witness ==
    /\ CONVERGENCE_ERC8004_ID = 0
    /\ convergence_signals # << >>
    /\ convergence_signals[1].agent_count = 3
    /\ \A p \in Procs : tick[p].pc = "idle"
    /\ ledger = << >>

\* the scheduled job of the convergence service fires
ServiceJob == Scan("service") \/ \E a \in Agents : ScanFails("service", a)

\* C35 as stated: a tick that raises is caught by its job wrapper, so that the
\* process is idle for the next firing, and every firing of the scheduled
\* job, in the convergence service and in the gateway, starts a tick.
C35_LaterTicksStarted ==
    [][/\ \A p \in Procs :
            (tick[p].pc # "idle" /\ tick'[p] # tick[p] /\ errors' # errors)
                => tick'[p] = IdleTick
       /\ ServiceJob => started' = started + 1
       /\ GatewayJob => started' = started + 1]_vars

====
